---- MODULE Spec2Model ----
(***************************************************************************)
(* Model of PDFMetadataExtractor (src/main.py): segmentation of a PDF into *)
(* paragraphs, table-like blocks and image captions, embedding of each     *)
(* unit and storage / query in a Qdrant collection.                        *)
(*                                                                         *)
(* A text (Python str) is a sequence of tokens.  Page text is a sequence   *)
(* of single characters; formatted strings (f-strings) are sequences of    *)
(* literal pieces and decimal digits.                                      *)
(***************************************************************************)
EXTENDS Integers, Sequences, FiniteSets, TLC

VARIABLES doc, pc, stage, text_metadata, table_metadata, image_metadata,
          collection_exists, points, batches, encoded, raised,
          store_failure, last_op, last_query, results

vars == <<doc, pc, stage, text_metadata, table_metadata, image_metadata,
          collection_exists, points, batches, encoded, raised,
          store_failure, last_op, last_query, results>>

(* ------------------------------ bounds -------------------------------- *)
MaxLen == 4
MaxRestLen == 1
MaxPages == 2
MaxPipeLen == 1
MaxImages == 1
MaxTopK == 3

(* ------------------------- strings and helpers ------------------------ *)
Alphabet == {"a", "|", "\t", "\n"}

Texts(n) == UNION {[1..k -> Alphabet] : k \in 0..n}

Whitespace == {" ", "\t", "\n", "\r"}

Min(a, b) == IF a < b THEN a ELSE b

RECURSIVE lstrip(_)
lstrip(s) ==
    IF s # <<>> /\ Head(s) \in Whitespace THEN lstrip(Tail(s)) ELSE s

RECURSIVE rstrip(_)
rstrip(s) ==
    IF s # <<>> /\ s[Len(s)] \in Whitespace
    THEN rstrip(SubSeq(s, 1, Len(s) - 1)) ELSE s

strip(s) == rstrip(lstrip(s))

IsSepAt(s, i) == i >= 1 /\ i < Len(s) /\ s[i] = "\n" /\ s[i + 1] = "\n"

find_sep(s) ==
    IF \E i \in 1..Len(s) : IsSepAt(s, i)
    THEN CHOOSE i \in 1..Len(s) :
            IsSepAt(s, i) /\ \A j \in 1..(i - 1) : ~IsSepAt(s, j)
    ELSE 0

RECURSIVE split(_)
split(s) ==
    LET i == find_sep(s) IN
    IF i = 0 THEN <<s>>
    ELSE <<SubSeq(s, 1, i - 1)>> \o split(SubSeq(s, i + 2, Len(s)))

Digits == <<"0", "1", "2", "3", "4", "5", "6", "7", "8", "9">>

RECURSIVE ToStr(_)
ToStr(n) ==
    IF n < 10 THEN <<Digits[n + 1]>>
    ELSE ToStr(n \div 10) \o <<Digits[(n % 10) + 1]>>

Contains(s, c) == \E i \in 1..Len(s) : s[i] = c

RECURSIVE Concat(_)
Concat(ss) == IF ss = <<>> THEN <<>> ELSE Head(ss) \o Concat(Tail(ss))

(* ----------------------------- segmentation --------------------------- *)
paragraphs_keep_empty(text) ==
    [i \in 1..Len(split(text)) |-> strip(split(text)[i])]

paragraphs(text) ==
    LET parts == split(text)
        stripped == [i \in 1..Len(parts) |-> strip(parts[i])]
        NonEmpty(p) == p # <<>>
    IN SelectSeq(stripped, NonEmpty)

page_paragraph_units(text, page_num) ==
    LET ps == paragraphs(text) IN
    [i \in 1..Len(ps) |-> [text |-> ps[i], page |-> page_num, paragraph |-> i]]

extract_text_with_metadata(d) ==
    Concat([p \in 1..Len(d) |-> page_paragraph_units(d[p].text, p)])

potential_tables(text) ==
    LET IsTable(block) == Contains(block, "|") \/ Contains(block, "\t")
    IN SelectSeq(split(text), IsTable)

table_description(table_num, page_num) ==
    <<"Table ">> \o ToStr(table_num) \o <<" on page ">> \o ToStr(page_num)

page_table_units(text, page_num) ==
    LET ts == potential_tables(text) IN
    [i \in 1..Len(ts) |->
        [table |-> ts[i], description |-> table_description(i, page_num),
         page |-> page_num]]

extract_tables(d) ==
    Concat([p \in 1..Len(d) |-> page_table_units(d[p].text, p)])

(* ------------------------------- images ------------------------------- *)
\* The module imports (lines 1-13) do not bind the name BytesIO that
\* extract_images evaluates at line 112.
BytesIO_defined == FALSE

ImageKinds ==
    {[decodable |-> TRUE, ocr |-> <<"a", "\n">>],
     [decodable |-> TRUE, ocr |-> <<"\n">>],
     [decodable |-> FALSE, ocr |-> <<>>]}

image_placeholder(img_index, page_num) ==
    <<"Image ">> \o ToStr(img_index) \o <<" on page ">> \o ToStr(page_num)

all_images(d) ==
    Concat([p \in 1..Len(d) |->
              [i \in 1..Len(d[p].images) |->
                  [page |-> p, image_index |-> i, image |-> d[p].images[i]]]])

image_outcome(e) ==
    IF ~BytesIO_defined
    THEN [raised |-> "NameError", unit |-> <<>>]
    ELSE IF ~e.image.decodable
    THEN [raised |-> "UnidentifiedImageError", unit |-> <<>>]
    ELSE [raised |-> "none",
          unit |-> [description |->
                        IF strip(e.image.ocr) # <<>> THEN strip(e.image.ocr)
                        ELSE image_placeholder(e.image_index, e.page),
                    page |-> e.page,
                    image_index |-> e.image_index]]

extract_images(d) ==
    LET all == all_images(d)
        outs == [i \in 1..Len(all) |-> image_outcome(all[i])]
        fails == {i \in 1..Len(all) : outs[i].raised # "none"}
    IN IF fails # {}
       THEN [raised |-> outs[CHOOSE i \in fails : \A j \in fails : i <= j].raised,
             value |-> <<>>]
       ELSE [raised |-> "none", value |-> [i \in 1..Len(all) |-> outs[i].unit]]

(* ------------------------ embedder and index store -------------------- *)
NoPoints == [id \in {} |-> 0]

TokenCode(t) ==
    CASE t = "a" -> 1 [] t = "|" -> 2 [] t = "\t" -> 3 [] t = "\n" -> 4
      [] OTHER -> 5

RECURSIVE SumCodes(_)
SumCodes(text) ==
    IF text = <<>> THEN 0 ELSE TokenCode(Head(text)) + SumCodes(Tail(text))

encode(text) == SumCodes(text) % 7

Score(qv, v) == IF qv >= v THEN v - qv ELSE qv - v

client_create_collection(exists, reach) ==
    IF ~reach THEN [raised |-> "StoreUnavailable", exists |-> exists]
    ELSE IF exists THEN [raised |-> "AlreadyExists", exists |-> exists]
    ELSE [raised |-> "none", exists |-> TRUE]

client_upsert(exists, pts, new_points, reach) ==
    IF ~reach THEN [raised |-> "StoreUnavailable", points |-> pts]
    ELSE IF ~exists THEN [raised |-> "CollectionNotFound", points |-> pts]
    ELSE LET new_ids == {new_points[i].id : i \in 1..Len(new_points)}
             Last(id) == CHOOSE i \in 1..Len(new_points) :
                            /\ new_points[i].id = id
                            /\ \A j \in 1..Len(new_points) :
                                  new_points[j].id = id => j <= i
         IN [raised |-> "none",
             points |-> [id \in DOMAIN pts \cup new_ids |->
                            IF id \in new_ids
                            THEN [vector |-> new_points[Last(id)].vector,
                                  payload |-> new_points[Last(id)].payload]
                            ELSE pts[id]]]

RECURSIVE ranked(_, _, _)
ranked(pts, ids, qv) ==
    IF ids = {} THEN <<>>
    ELSE LET best == CHOOSE i \in ids : \A j \in ids :
                        \/ Score(qv, pts[i].vector) > Score(qv, pts[j].vector)
                        \/ /\ Score(qv, pts[i].vector) = Score(qv, pts[j].vector)
                           /\ i <= j
         IN <<best>> \o ranked(pts, ids \ {best}, qv)

client_search(exists, pts, qv, limit, reach) ==
    IF ~reach THEN [raised |-> "StoreUnavailable", value |-> <<>>]
    ELSE IF ~exists THEN [raised |-> "CollectionNotFound", value |-> <<>>]
    ELSE LET r == ranked(pts, DOMAIN pts, qv) IN
         [raised |-> "none",
          value |-> [i \in 1..Min(limit, Len(r)) |->
                        [payload |-> pts[r[i]].payload,
                         score |-> Score(qv, pts[r[i]].vector)]]]

(* ------------------------------ operations ---------------------------- *)
create_qdrant_collection_propagating(exists, reach) ==
    client_create_collection(exists, reach)

create_qdrant_collection(exists, reach) ==
    [raised |-> "none", exists |-> client_create_collection(exists, reach).exists]

embedding_text(item) ==
    IF "text" \in DOMAIN item THEN item.text ELSE item.description

RECURSIVE build_points(_, _)
build_points(data, idx) ==
    IF data = <<>> THEN <<>>
    ELSE LET item == Head(data) IN
         IF "text" \in DOMAIN item \/ "description" \in DOMAIN item
         THEN <<[id |-> idx, vector |-> encode(embedding_text(item)),
                 payload |-> item, text |-> embedding_text(item)]>>
              \o build_points(Tail(data), idx + 1)
         ELSE build_points(Tail(data), idx + 1)

store_in_qdrant(data, exists, pts, reach) ==
    LET new_points == build_points(data, 0)
        up == client_upsert(exists, pts, new_points, reach)
    IN [raised |-> up.raised, points |-> up.points,
        encoded |-> [i \in 1..Len(new_points) |->
                        [item |-> new_points[i].payload,
                         text |-> new_points[i].text]],
        batch |-> [i \in 1..Len(new_points) |->
                        [id |-> new_points[i].id,
                         payload |-> new_points[i].payload]]]

query_qdrant_short(query, top_k, exists, pts, reach) ==
    LET sr == client_search(exists, pts, encode(query), top_k - 1, reach)
    IN [raised |-> sr.raised,
        value |-> [i \in 1..Len(sr.value) |-> sr.value[i].payload]]

query_qdrant(query, top_k, exists, pts, reach) ==
    LET sr == client_search(exists, pts, encode(query), top_k, reach)
    IN [raised |-> sr.raised,
        value |-> [i \in 1..Len(sr.value) |-> sr.value[i].payload]]

\* process_pdf, lines 178-189: each statement runs only if every earlier
\* one returned; reach[k] is whether the store answers the k-th upsert.
process_pdf(d, exists, pts, reach) ==
    LET tm == extract_text_with_metadata(d)
        s1 == store_in_qdrant(tm, exists, pts, reach[1])
        tb == extract_tables(d)
        s2 == store_in_qdrant(tb, exists, s1.points, reach[2])
        im == extract_images(d)
        s3 == store_in_qdrant(im.value, exists, s2.points, reach[3])
        base == [stage |-> 1, raised |-> s1.raised, text_metadata |-> tm,
                 table_metadata |-> <<>>, image_metadata |-> <<>>,
                 points |-> s1.points, batches |-> <<>>,
                 encoded |-> s1.encoded, store_failed |-> ~reach[1]]
    IN IF s1.raised # "none" THEN base
       ELSE IF s2.raised # "none"
       THEN [base EXCEPT !.stage = 3, !.raised = s2.raised,
                         !.table_metadata = tb, !.points = s2.points,
                         !.batches = <<s1.batch>>,
                         !.encoded = s1.encoded \o s2.encoded,
                         !.store_failed = ~reach[2]]
       ELSE IF im.raised # "none"
       THEN [base EXCEPT !.stage = 4, !.raised = im.raised,
                         !.table_metadata = tb, !.points = s2.points,
                         !.batches = <<s1.batch, s2.batch>>,
                         !.encoded = s1.encoded \o s2.encoded,
                         !.store_failed = FALSE]
       ELSE [base EXCEPT !.stage = IF s3.raised # "none" THEN 5 ELSE 6,
                         !.raised = s3.raised,
                         !.table_metadata = tb, !.image_metadata = im.value,
                         !.points = s3.points,
                         !.batches = IF s3.raised # "none"
                                     THEN <<s1.batch, s2.batch>>
                                     ELSE <<s1.batch, s2.batch, s3.batch>>,
                         !.encoded = s1.encoded \o s2.encoded \o s3.encoded,
                         !.store_failed = ~reach[3]]

(* ------------------------------- pipeline ----------------------------- *)
RECURSIVE SeqsUpTo(_, _)
SeqsUpTo(S, n) ==
    IF n = 0 THEN {<<>>}
    ELSE SeqsUpTo(S, n - 1) \cup
         {Append(s, x) : s \in {t \in SeqsUpTo(S, n - 1) : Len(t) = n - 1},
                         x \in S}

Pages(p) ==
    [text : Texts(MaxPipeLen),
     images : IF p = 1 THEN SeqsUpTo(ImageKinds, MaxImages) ELSE {<<>>}]

RECURSIVE DocsOfLen(_)
DocsOfLen(n) ==
    IF n = 1 THEN {<<p>> : p \in Pages(1)}
    ELSE {Append(d, p) : d \in DocsOfLen(n - 1), p \in Pages(n)}

Docs == UNION {DocsOfLen(n) : n \in 1..MaxPages}

Queries == {<<"a">>, <<"|">>}

Init ==
    /\ doc \in Docs
    /\ pc = "new"
    /\ stage = 0
    /\ text_metadata = <<>>
    /\ table_metadata = <<>>
    /\ image_metadata = <<>>
    /\ collection_exists = FALSE
    /\ points = NoPoints
    /\ batches = <<>>
    /\ encoded = <<>>
    /\ raised = "none"
    /\ store_failure = "none"
    /\ last_op = "none"
    /\ last_query = [query |-> <<>>, top_k |-> 1]
    /\ results = <<>>

\* __init__, lines 24-37
Construct ==
    /\ pc = "new"
    /\ \E reach \in BOOLEAN :
          LET r == create_qdrant_collection(collection_exists, reach) IN
          /\ collection_exists' = r.exists
          /\ raised' = r.raised
          /\ store_failure' = IF reach THEN "none" ELSE "create_collection"
    /\ pc' = "idle"
    /\ last_op' = "__init__"
    /\ UNCHANGED <<doc, stage, text_metadata, table_metadata, image_metadata,
                   points, batches, encoded, last_query, results>>

CreateCollection ==
    /\ pc = "processed"
    /\ \E reach \in BOOLEAN :
          LET r == create_qdrant_collection(collection_exists, reach) IN
          /\ collection_exists' = r.exists
          /\ raised' = r.raised
          /\ store_failure' = IF reach THEN "none" ELSE "create_collection"
    /\ last_op' = "create_qdrant_collection"
    /\ UNCHANGED <<doc, pc, stage, text_metadata, table_metadata,
                   image_metadata, points, batches, encoded, last_query,
                   results>>

ProcessPdf ==
    /\ pc = "idle"
    /\ \E reach \in [1..3 -> BOOLEAN] :
          LET r == process_pdf(doc, collection_exists, points, reach) IN
          /\ stage' = r.stage
          /\ raised' = r.raised
          /\ text_metadata' = r.text_metadata
          /\ table_metadata' = r.table_metadata
          /\ image_metadata' = r.image_metadata
          /\ points' = r.points
          /\ batches' = r.batches
          /\ encoded' = r.encoded
          /\ store_failure' = IF r.store_failed THEN "upsert" ELSE "none"
    /\ pc' = "processed"
    /\ last_op' = "process_pdf"
    /\ UNCHANGED <<doc, collection_exists, last_query, results>>

Query ==
    /\ pc = "processed"
    /\ \E query \in Queries, top_k \in 1..MaxTopK, reach \in BOOLEAN :
          LET r == query_qdrant(query, top_k, collection_exists, points, reach)
          IN /\ results' = r.value
             /\ raised' = r.raised
             /\ store_failure' = IF reach THEN "none" ELSE "query"
             /\ last_query' = [query |-> query, top_k |-> top_k]
    /\ last_op' = "query_qdrant"
    /\ UNCHANGED <<doc, pc, stage, text_metadata, table_metadata,
                   image_metadata, collection_exists, points, batches,
                   encoded>>

Next == Construct \/ CreateCollection \/ ProcessPdf \/ Query

Spec == Init /\ [][Next]_vars

(* ------------------ specification of the segmentation ----------------- *)
SegPages(p) ==
    [text : Texts(IF p = 1 THEN MaxLen ELSE MaxRestLen), images : {<<>>}]

RECURSIVE SegDocsOfLen(_)
SegDocsOfLen(n) ==
    IF n = 1 THEN {<<p>> : p \in SegPages(1)}
    ELSE {Append(d, p) : d \in SegDocsOfLen(n - 1), p \in SegPages(n)}

SegDocs == UNION {SegDocsOfLen(n) : n \in 1..MaxPages}

SegInit ==
    /\ doc \in SegDocs
    /\ pc = "seg_start"
    /\ stage = 0
    /\ text_metadata = <<>>
    /\ table_metadata = <<>>
    /\ image_metadata = <<>>
    /\ collection_exists = FALSE
    /\ points = NoPoints
    /\ batches = <<>>
    /\ encoded = <<>>
    /\ raised = "none"
    /\ store_failure = "none"
    /\ last_op = "none"
    /\ last_query = [query |-> <<>>, top_k |-> 1]
    /\ results = <<>>

SegExtractText ==
    /\ pc = "seg_start"
    /\ pc' = "seg_text"
    /\ text_metadata' = extract_text_with_metadata(doc)
    /\ last_op' = "extract_text_with_metadata"
    /\ UNCHANGED <<doc, stage, table_metadata, image_metadata,
                   collection_exists, points, batches, encoded, raised,
                   store_failure, last_query, results>>

SegExtractTables ==
    /\ pc = "seg_text"
    /\ pc' = "seg_tables"
    /\ table_metadata' = extract_tables(doc)
    /\ last_op' = "extract_tables"
    /\ UNCHANGED <<doc, stage, text_metadata, image_metadata,
                   collection_exists, points, batches, encoded, raised,
                   store_failure, last_query, results>>

SegNext == SegExtractText \/ SegExtractTables

SegSpec == SegInit /\ [][SegNext]_vars

(* ------------------------- reference definitions ---------------------- *)
\* Trimming stated by positions: the span from the first to the last
\* non-whitespace token, or the empty text when there is none.
Trimmed(f) ==
    LET solid == {i \in 1..Len(f) : f[i] \notin Whitespace} IN
    IF solid = {} THEN <<>>
    ELSE SubSeq(f, CHOOSE i \in solid : \A j \in solid : i <= j,
                   CHOOSE i \in solid : \A j \in solid : i >= j)

\* The ways of cutting a text at double newlines: sets of separator
\* positions that do not overlap and leave no separator inside a piece.
SepPositions(s) == {i \in 1..Len(s) : IsSepAt(s, i)}

ValidCuts(s) ==
    {C \in SUBSET SepPositions(s) :
        /\ \A i \in C : (i + 1) \notin C
        /\ \A i \in SepPositions(s) \ C : (i - 1) \in C \/ (i + 1) \in C}

CutAt(C, k) == CHOOSE c \in C : Cardinality({x \in C : x < c}) = k - 1

Pieces(s, C) ==
    LET n == Cardinality(C)
        From(k) == IF k = 1 THEN 1 ELSE CutAt(C, k - 1) + 2
        To(k) == IF k = n + 1 THEN Len(s) ELSE CutAt(C, k) - 1
    IN [k \in 1..(n + 1) |-> SubSeq(s, From(k), To(k))]

TrimmedNonEmpty(fs) ==
    LET ts == [i \in 1..Len(fs) |-> Trimmed(fs[i])]
        Kept(t) == t # <<>>
    IN SelectSeq(ts, Kept)

OnPage(units, p) == LET Here(u) == u.page = p IN SelectSeq(units, Here)

PagesInOrder(units) ==
    \A i, j \in 1..Len(units) : i < j => units[i].page <= units[j].page

HasPipeOrTab(f) == Contains(f, "|") \/ Contains(f, "\t")

ExpectedCaption(e) ==
    [description |-> IF Trimmed(e.image.ocr) # <<>> THEN Trimmed(e.image.ocr)
                     ELSE <<"Image ">> \o ToStr(e.image_index)
                          \o <<" on page ">> \o ToStr(e.page),
     page |-> e.page, image_index |-> e.image_index]

Decodable(e) == e.image.decodable

NumUnits == Len(text_metadata) + Len(table_metadata) + Len(image_metadata)

AllUnits ==
    {text_metadata[i] : i \in 1..Len(text_metadata)}
      \cup {table_metadata[i] : i \in 1..Len(table_metadata)}
      \cup {image_metadata[i] : i \in 1..Len(image_metadata)}

(* -------------------------------- claims ------------------------------ *)
\* C1: after process_pdf completes, the store holds exactly one point per
\* extracted unit: every paragraph, table-like block and image caption is
\* present as its own point (no batch overwrites a point of an earlier one).
Orig_C1 ==
    stage = 6 =>
        /\ Cardinality(DOMAIN points) = NumUnits
        /\ \A u \in AllUnits : \E id \in DOMAIN points : points[id].payload = u

\* C2: a failure to reach the index store is surfaced to the caller of the
\* operation in which it occurs (collection creation, upsert, query).
Orig_C2 == store_failure # "none" => raised # "none"

\* C3: for every page, extract_text_with_metadata emits exactly the
\* fragments obtained by splitting the page text on double newlines,
\* trimming each and discarding the empty ones, in their original order,
\* with the 1-based page number and numbered 1..N afresh on each page.
Thm_C3 ==
    pc \in {"seg_text", "seg_tables"} =>
        /\ PagesInOrder(text_metadata)
        /\ \A i \in 1..Len(text_metadata) :
              text_metadata[i].page \in 1..Len(doc)
        /\ \A p \in 1..Len(doc) :
              LET us == OnPage(text_metadata, p) IN
              /\ \A i \in 1..Len(us) : us[i].paragraph = i
              /\ ValidCuts(doc[p].text) # {}
              /\ \A C \in ValidCuts(doc[p].text) :
                    [i \in 1..Len(us) |-> us[i].text]
                        = TrimmedNonEmpty(Pieces(doc[p].text, C))

Witness_C3 ==
    /\ pc = "seg_text"
    /\ Len(doc) = 2
    /\ Len(text_metadata) = 3
    /\ text_metadata[2].page = 1
    /\ text_metadata[2].paragraph = 2
    /\ text_metadata[3].page = 2
    /\ text_metadata[3].paragraph = 1

\* C4: for every page, extract_tables emits a block for a fragment iff the
\* fragment contains a pipe or a tab, in the original order, numbered 1..M
\* afresh on each page, and every such fragment is also emitted as a
\* paragraph with the same content.
Orig_C4 ==
    pc = "seg_tables" =>
        /\ PagesInOrder(table_metadata)
        /\ \A p \in 1..Len(doc) :
              LET ts == OnPage(table_metadata, p)
                  fs == SelectSeq(split(doc[p].text), HasPipeOrTab)
              IN /\ Len(ts) = Len(fs)
                 /\ \A i \in 1..Len(ts) :
                       /\ ts[i].table = fs[i]
                       /\ ts[i].description =
                             <<"Table ">> \o ToStr(i) \o <<" on page ">>
                                \o ToStr(p)
                       /\ \E j \in 1..Len(text_metadata) :
                             /\ text_metadata[j].page = p
                             /\ text_metadata[j].text = ts[i].table

\* C5: for every image on a page, extract_images emits one caption unit in
\* document order whose description is the trimmed OCR text or, when that
\* is empty, "Image {index} on page {page}"; numbering restarts per page.
Orig_C5 ==
    (stage >= 4 /\ \A i \in 1..Len(all_images(doc)) : Decodable(all_images(doc)[i]))
        => image_metadata =
              [i \in 1..Len(all_images(doc)) |-> ExpectedCaption(all_images(doc)[i])]

\* C6: the text passed to the embedder is the unit's own content for a
\* paragraph (its text) and for a table-like block (the table text), and
\* the caption or placeholder for an image; a unit with neither field is
\* never embedded.
Orig_C6 ==
    \A i \in 1..Len(encoded) :
        LET item == encoded[i].item IN
        /\ DOMAIN item \cap {"text", "table", "description"} # {}
        /\ encoded[i].text =
              IF "text" \in DOMAIN item THEN item.text
              ELSE IF "table" \in DOMAIN item THEN item.table
              ELSE item.description

\* C7: if decoding or OCR fails for one image during process_pdf, only
\* that image's unit is omitted: nothing propagates out of the run, the
\* other images are still extracted and all three batches are submitted.
Orig_C7 ==
    (/\ last_op = "process_pdf"
     /\ stage >= 4
     /\ store_failure = "none"
     /\ collection_exists
     /\ \E i \in 1..Len(all_images(doc)) : ~Decodable(all_images(doc)[i]))
        => /\ raised = "none"
           /\ Len(batches) = 3
           /\ image_metadata =
                 LET ok == SelectSeq(all_images(doc), Decodable) IN
                 [i \in 1..Len(ok) |-> ExpectedCaption(ok[i])]

\* C8: creating the collection is idempotent: a call of
\* create_qdrant_collection when the collection already exists does not
\* raise and leaves the collection and every stored point unchanged.
Thm_C8 ==
    [][(last_op' = "create_qdrant_collection" /\ collection_exists)
          => (raised' = "none" /\ collection_exists' /\ points' = points)]_vars

Witness_C8 ==
    /\ last_op = "create_qdrant_collection"
    /\ collection_exists
    /\ Cardinality(DOMAIN points) >= 2

\* C9: against a store holding n points, query_qdrant with top_k >= 1
\* returns exactly min(top_k, n) payloads in descending similarity to the
\* query vector, and does not raise when top_k exceeds n.
Thm_C9 ==
    (last_op = "query_qdrant" /\ store_failure = "none" /\ collection_exists)
        => /\ raised = "none"
           /\ Len(results) = Min(last_query.top_k, Cardinality(DOMAIN points))
           /\ \E ids \in [1..Len(results) -> DOMAIN points] :
                 LET sc(id) == Score(encode(last_query.query), points[id].vector)
                 IN /\ \A i \in 1..Len(results) :
                          points[ids[i]].payload = results[i]
                    /\ \A i, j \in 1..Len(results) :
                          i < j => ids[i] # ids[j] /\ sc(ids[i]) >= sc(ids[j])
                    /\ \A id \in DOMAIN points :
                          (\A i \in 1..Len(results) : ids[i] # id)
                             => \A i \in 1..Len(results) : sc(ids[i]) >= sc(id)

Witness_C9 ==
    /\ last_op = "query_qdrant"
    /\ raised = "none"
    /\ last_query.top_k = 3
    /\ Cardinality(DOMAIN points) = 2
    /\ Len(results) = 2
    /\ \E a, b \in DOMAIN points :
          /\ points[a].payload = results[1]
          /\ points[b].payload = results[2]
          /\ a > b
          /\ Score(encode(last_query.query), points[a].vector)
                > Score(encode(last_query.query), points[b].vector)

\* C10: every unit emitted by any of the three extractions has page >= 1,
\* a per-page ordinal >= 1, and content that is non-empty after trimming.
Orig_C10 ==
    /\ \A i \in 1..Len(text_metadata) :
          /\ text_metadata[i].page >= 1
          /\ text_metadata[i].paragraph >= 1
          /\ Trimmed(text_metadata[i].text) # <<>>
    /\ \A i \in 1..Len(table_metadata) :
          /\ table_metadata[i].page >= 1
          /\ \E n \in 1..Len(table_metadata) :
                table_metadata[i].description =
                    <<"Table ">> \o ToStr(n) \o <<" on page ">>
                       \o ToStr(table_metadata[i].page)
          /\ Trimmed(table_metadata[i].table) # <<>>
    /\ \A i \in 1..Len(image_metadata) :
          /\ image_metadata[i].page >= 1
          /\ image_metadata[i].image_index >= 1
          /\ Trimmed(image_metadata[i].description) # <<>>

====
